---- MODULE Spec2Model ----
(***************************************************************************)
(* Model of the Si4713 FM transmitter driver (package radio).              *)
(*                                                                         *)
(* The repository holds two revisions of the driver: src/radio/radio.go    *)
(* (global command templates mutated in place, driver fields copied from   *)
(* the configuration, Start checks the frequency itself) and               *)
(* src/unnamed/part_001 (command constructors, embedded configuration,     *)
(* Start runs Validate again).  The variable impl selects the revision.    *)
(*                                                                         *)
(* The bus is the environment.  Every bus operation of the driver is one   *)
(* step of the model; the driver's position inside an operation is the     *)
(* sequence todo of the steps it still has to perform.                     *)
(*                                                                         *)
(* Six specifications share the state and the actions:                     *)
(*   Spec          construction, Start and Halt on every connector;        *)
(*   ValidateSpec  NewSi4713Driver on every configuration of               *)
(*                 ValidateInputs;                                         *)
(*   RdsSpec       SetRDSStation and SetRDSMessage on a started driver;    *)
(*   OpsSpec       tuneFM, readTuneMeasure, readTuneStatus, Loop and Halt  *)
(*                 on a started driver;                                    *)
(*   CallersSpec   two goroutines inside operations of one started driver;  *)
(*   InstancesSpec two started drivers of one process, each with its own   *)
(*                 caller.                                                 *)
(***************************************************************************)
EXTENDS Integers, Sequences, FiniteSets, TLC

\* ---------------------------------------------------------------- bounds
\* Most status bytes without clear-to-send the device answers in one handshake.
MaxBusy == 2
\* Most operations invoked on one driver, Start among them.
MaxOps == 3
\* Most interrupt-status polls that find the tune not complete, in one wait.
MaxPolls == 1
\* Most operations invoked on the driver of LiveSpec, Start among them.
LiveOps == 2
\* Most status bytes without clear-to-send in one handshake of LiveSpec.
LiveBusy == 1

\* ------------------------------------------------------- program constants
low == 0
high == 1

STATUS_CTS == 128
CMD_POWER_UP == 1
CMD_GET_REV == 16
CMD_POWER_DOWN == 17
CMD_SET_PROPERTY == 18
CMD_GET_INT_STATUS == 20
CMD_TX_TUNE_FREQ == 48
CMD_TX_TUNE_POWER == 49
CMD_TX_TUNE_MEASURE == 50
CMD_TX_TUNE_STATUS == 51
CMD_TX_ASQ_STATUS == 52
CMD_TX_RDS_BUFF == 53
CMD_TX_RDS_PS == 54
CMD_GPO_CTL == 128
CMD_GPO_SET == 129

PROP_REFCLK_FREQ == 513
PROP_TX_COMPONENT_ENABLE == 8448
PROP_TX_AUDIO_DEVIATION == 8449
PROP_TX_RDS_DEVIATION == 8451
PROP_TX_PREEMPHASIS == 8454
PROP_TX_ACOMP_ENABLE == 8704
PROP_TX_ACOMP_GAIN == 8708
PROP_TX_RDS_INTERRUPT_SOURCE == 11264
PROP_TX_RDS_PI == 11265
PROP_TX_RDS_PS_MIX == 11266
PROP_TX_RDS_PS_MISC == 11267
PROP_TX_RDS_PS_REPEAT_COUNT == 11268
PROP_TX_RDS_MESSAGE_COUNT == 11269
PROP_TX_RDS_PS_AF == 11270
PROP_TX_RDS_FIFO_SIZE == 11271

\* Validate: bounds of the transmit band, of the power, the defaults.
MinFrequency == 8750
MaxFrequency == 10800
MinPower == 88
MaxPower == 115
DefaultProgramID == 12548
\* The part number of the Si4713 (begin).
PartNumberSi4713 == 13
\* scanFrequencies: f := 7600; f < 10800; f += 10.
ScanFrom == 7600
ScanTo == 10800
ScanStep == 10
\* Start of radio.go: the lower limit of its own frequency check.
StartMinFrequency == 7600

\* ------------------------------------------------------------ byte helpers
\* b & m # 0 for a one-bit mask m (a power of two).
HasBit(b, m) == (b \div m) % 2 = 1
\* status&0x81 == 0x81
Has81(b) == HasBit(b, 128) /\ HasBit(b, 1)
\* uint8(v >> 8), uint8(v & 0xFF) of a uint16
Hi(v) == (v \div 256) % 256
Lo(v) == v % 256

\* Strings are sequences of byte values.
SP == 32
StrEmpty == << >>
StrAB == <<65, 66>>
StrTest == <<84, 101, 115, 116>>
StrHello == <<72, 101, 108, 108, 111>>
StrEight == <<82, 97, 100, 105, 111, 32, 70, 77>>
StrWXYZ == <<87, 88, 89, 90>>
StrNine == <<68, 108, 83, 110, 73, 112, 69, 114, 33>>
\* A string of n bytes.
StrOfLen(n) == [i \in 1..n |-> 65 + (i % 26)]
PinDefault == <<50, 57>>
PinSeven == <<55>>

\* ------------------------------------------------------------ configuration
\* Si4713Config.  Log and DebugLog stand for "the function is not nil".
BaseConfig ==
    [TransmitFrequency |-> 9550, AlternateFrequency |-> 8750,
     TransmitPower |-> 115, ResetPin |-> StrEmpty, DebugMode |-> FALSE,
     WithFrequencyScan |-> FALSE, StopAfterFrequencyScan |-> FALSE,
     HasRDS |-> TRUE, ProgramID |-> 12548, StationName |-> StrTest,
     RdsMessage |-> StrHello, DebugLog |-> FALSE, Log |-> TRUE]

\* The configurations a caller passes: the base one with one group of
\* fields varied at a time.
Frequencies == {0, 7599, 7600, 8000, 8749, 8750, 10800, 10801}
Powers == {0, 87, 88, 116, 255}
AltFrequencies == {0, 8749, 10800, 10801}
Configs ==
    {[BaseConfig EXCEPT !.TransmitFrequency = f] : f \in Frequencies}
    \cup {[BaseConfig EXCEPT !.TransmitPower = p] : p \in Powers}
    \cup {[BaseConfig EXCEPT !.AlternateFrequency = a] : a \in AltFrequencies}
    \cup {[BaseConfig EXCEPT !.HasRDS = FALSE, !.WithFrequencyScan = w,
                             !.StopAfterFrequencyScan = s]
            : w \in BOOLEAN, s \in BOOLEAN}
    \cup {[BaseConfig EXCEPT !.StopAfterFrequencyScan = TRUE]}
    \cup {[BaseConfig EXCEPT !.DebugMode = d, !.DebugLog = g, !.Log = l]
            : d \in BOOLEAN, g \in BOOLEAN, l \in BOOLEAN}
    \cup {[BaseConfig EXCEPT !.StationName = n, !.RdsMessage = m]
            : n \in {StrEmpty, StrAB}, m \in {StrEmpty, StrEight}}
    \cup {[BaseConfig EXCEPT !.ProgramID = 0, !.ResetPin = PinSeven]}

\* Si4713Config.Validate.
\* A Validate that does not look at Log.
LogUnsetNever(c) == FALSE

\* c.Log == nil
LogUnset(c) == ~c.Log

\* A Validate that wants a DebugLog function whatever DebugMode is.
DebugLogNil(c) == ~c.DebugLog

\* c.DebugMode && c.DebugLog == nil
DebugLogUnset(c) == c.DebugMode /\ ~c.DebugLog

\* A frequency check with the lower limit alone.
ValidateFrequencyBelowOnly(c) == c.TransmitFrequency < MinFrequency

ValidateFrequencyOutOfRange(c) ==
    c.TransmitFrequency < MinFrequency \/ c.TransmitFrequency > MaxFrequency

\* An alternate-frequency check with the lower limit alone.
AlternateFrequencyBelowOnly(c) == c.AlternateFrequency < MinFrequency

\* An alternate-frequency check that takes the lower limit itself as out of
\* range (<= for <).
AlternateFrequencyAtLimit(c) ==
    c.AlternateFrequency <= MinFrequency \/ c.AlternateFrequency > MaxFrequency

AlternateFrequencyOutOfRange(c) ==
    c.AlternateFrequency < MinFrequency \/ c.AlternateFrequency > MaxFrequency

\* A clamp of the power that leaves out the upper limit.
ClampPowerLowOnly(p) == IF p < MinPower THEN MinPower ELSE p

\* The transmit power as the two branches on it leave it.
ClampPower(p) ==
    IF p < MinPower THEN MinPower ELSE IF p > MaxPower THEN MaxPower ELSE p

\* The call of c.Log in the branch that changes the power.
PowerNotice(p) ==
    IF p < MinPower \/ p > MaxPower THEN <<"TransmitPower">> ELSE << >>

\* The outcome, the configuration Validate leaves behind and the notices it
\* has passed to c.Log, in order.
Validate(c) ==
    LET c1 == IF c.ResetPin = StrEmpty THEN [c EXCEPT !.ResetPin = PinDefault] ELSE c
        altBad == AlternateFrequencyOutOfRange(c1)
        c2 == IF altBad THEN [c1 EXCEPT !.AlternateFrequency = MinFrequency] ELSE c1
        c3 == [c2 EXCEPT !.TransmitPower = ClampPower(c2.TransmitPower)]
        c4 == IF c3.ProgramID < 1 THEN [c3 EXCEPT !.ProgramID = DefaultProgramID] ELSE c3
        n  == (IF altBad THEN <<"AlternateFrequency">> ELSE << >>)
              \o PowerNotice(c2.TransmitPower)
    IN  IF LogUnset(c)
          THEN [res |-> "panic", cfg |-> c, notices |-> << >>]
        ELSE IF DebugLogUnset(c)
          THEN [res |-> "panic", cfg |-> c, notices |-> << >>]
        ELSE IF c1.TransmitFrequency = 0
          THEN [res |-> "errFrequencyNotSet", cfg |-> c1, notices |-> << >>]
        ELSE IF ValidateFrequencyOutOfRange(c1)
          THEN [res |-> "errFrequencyBounds", cfg |-> c1, notices |-> << >>]
        ELSE [res |-> "ok", cfg |-> c4, notices |-> n]

\* ------------------------------------------------------- command templates
\* The package-level command buffers of radio.go; the constructors of
\* part_001 return a fresh copy of the same layout on every call.
\* Command buffers in which the GPIO-set command has a third byte.
TemplatesLongGPIO ==
    [cmdPowerUp |-> <<CMD_POWER_UP, 18, 80>>,
     cmdPowerDown |-> <<CMD_POWER_DOWN, 0>>,
     cmdGetRev |-> <<CMD_GET_REV, 0>>,
     cmdTuneFM |-> <<CMD_TX_TUNE_FREQ, 0, 0, 0>>,
     cmdReadTuneStatus |-> <<CMD_TX_TUNE_STATUS, 1>>,
     cmdTuneMeasure |-> <<CMD_TX_TUNE_MEASURE, 0, 0, 0, 0>>,
     cmdSetTxPower |-> <<CMD_TX_TUNE_POWER, 0, 0, 0, 0>>,
     cmdSetProperty |-> <<CMD_SET_PROPERTY, 0, 0, 0, 0, 0>>,
     cmdSetRDSStationName |-> <<CMD_TX_RDS_PS, 0, 0, 0, 0, 0>>,
     cmdSetRDSMessage |-> <<CMD_TX_RDS_BUFF, 0, 0, 0, 0, 0, 0, 0>>,
     cmdSetGPIOCtrl |-> <<CMD_GPO_CTL, 0>>,
     cmdSetGPIO |-> <<CMD_GPO_SET, 0, 0>>,
     cmdASQStatus |-> <<CMD_TX_ASQ_STATUS, 1>>]

Templates ==
    [cmdPowerUp |-> <<CMD_POWER_UP, 18, 80>>,
     cmdPowerDown |-> <<CMD_POWER_DOWN, 0>>,
     cmdGetRev |-> <<CMD_GET_REV, 0>>,
     cmdTuneFM |-> <<CMD_TX_TUNE_FREQ, 0, 0, 0>>,
     cmdReadTuneStatus |-> <<CMD_TX_TUNE_STATUS, 1>>,
     cmdTuneMeasure |-> <<CMD_TX_TUNE_MEASURE, 0, 0, 0, 0>>,
     cmdSetTxPower |-> <<CMD_TX_TUNE_POWER, 0, 0, 0, 0>>,
     cmdSetProperty |-> <<CMD_SET_PROPERTY, 0, 0, 0, 0, 0>>,
     cmdSetRDSStationName |-> <<CMD_TX_RDS_PS, 0, 0, 0, 0, 0>>,
     cmdSetRDSMessage |-> <<CMD_TX_RDS_BUFF, 0, 0, 0, 0, 0, 0, 0>>,
     cmdSetGPIOCtrl |-> <<CMD_GPO_CTL, 0>>,
     cmdSetGPIO |-> <<CMD_GPO_SET, 0>>,
     cmdASQStatus |-> <<CMD_TX_ASQ_STATUS, 1>>]

\* buf with the assignments buf[i] = v of set (pairs <<i, v>>, i counted
\* from 1) carried out.
Assign(buf, set) ==
    [i \in DOMAIN buf |->
        IF \E k \in DOMAIN set : set[k][1] = i
          THEN set[CHOOSE k \in DOMAIN set : set[k][1] = i][2]
          ELSE buf[i]]

\* ------------------------------------------------------------------- steps
\* One pending step of an operation: k the kind, t a name, set the byte
\* assignments of a command, n a number.
Step(k, t, set, n) == [n |-> n, set |-> set, k |-> k, t |-> t]

\* sendCommand(cmd), for the command built from template t by set.
Send(t, set) == Step("send", t, set, 0)

setProperty(property, value) ==
    Send("cmdSetProperty",
         <<<<3, Hi(property)>>, <<4, Lo(property)>>, <<5, Hi(value)>>, <<6, Lo(value)>>>>)

\* A reset that pulls the pin low first.
resetLowFirst ==
    <<Step("digitalWriter", "", << >>, 0),
      Step("dw", "", << >>, low), Step("dw", "", << >>, high),
      Step("dw", "", << >>, low)>>

reset ==
    <<Step("digitalWriter", "", << >>, 0),
      Step("dw", "", << >>, high), Step("dw", "", << >>, low),
      Step("dw", "", << >>, high)>>

powerUp ==
    <<Send("cmdPowerUp", << >>),
      setProperty(PROP_REFCLK_FREQ, 32768),
      setProperty(PROP_TX_PREEMPHASIS, 0),
      setProperty(PROP_TX_ACOMP_ENABLE, 2),
      setProperty(PROP_TX_ACOMP_GAIN, 10),
      setProperty(PROP_TX_ACOMP_ENABLE, 2)>>

powerDown == <<Send("cmdPowerDown", << >>)>>

\* A getRev that asks for the revision a second time.
getRevTwice ==
    <<Send("cmdGetRev", << >>), Step("buffRead", "rev", << >>, 9),
      Send("cmdGetRev", << >>), Step("buffRead", "rev", << >>, 9)>>

getRev == <<Send("cmdGetRev", << >>), Step("buffRead", "rev", << >>, 9)>>

begin == reset \o powerUp \o getRev

\* getStatus inside the wait loop of tuneFM ("tune") or readTuneMeasure
\* ("measure"): the write of CMD_GET_INT_STATUS, then the read.
getStatus(loop) == Step("intW", loop, << >>, 0)

\* A tuneFM that puts the low byte of the frequency first.
tuneFMLowFirst(freqKHz) ==
    <<Send("cmdTuneFM", <<<<3, Lo(freqKHz)>>, <<4, Hi(freqKHz)>>>>), getStatus("tune")>>

tuneFM(freqKHz) ==
    <<Send("cmdTuneFM", <<<<3, Hi(freqKHz)>>, <<4, Lo(freqKHz)>>>>), getStatus("tune")>>

\* A readTuneMeasure that sends the frequency as it is.
MeasureFrequencyAsIs(f) == f

\* readTuneMeasure: if freq%5 != 0 { freq -= freq % 5 }
MeasureFrequency(f) == IF f % 5 # 0 THEN f - (f % 5) ELSE f

readTuneMeasure(f) ==
    <<Send("cmdTuneMeasure",
           <<<<3, Hi(MeasureFrequency(f))>>, <<4, Lo(MeasureFrequency(f))>>>>),
      getStatus("measure")>>

readTuneStatus ==
    <<Send("cmdReadTuneStatus", << >>)>>
    \o [i \in 1..8 |->
          Step("readByte",
               <<"status", "resp1", "freqHi", "freqLo", "resp4", "dBuV", "antCap",
                 "noise">>[i], << >>, 0)]

setTxPower(pwr, antCap) == <<Send("cmdSetTxPower", <<<<4, pwr>>, <<5, antCap>>>>)>>

setGPIOCtrl(pin) == <<Send("cmdSetGPIOCtrl", <<<<2, pin>>>>)>>

SetGPIO(pin) == <<Send("cmdSetGPIO", <<<<2, pin>>>>)>>

readASQ == <<Send("cmdASQStatus", << >>), Step("buffRead", "asq", << >>, 5)>>

deviceStatus == <<Step("buffRead", "status", << >>, 6)>>

\* A Loop that does not look at the debug mode.
DebugModeOffNever(c) == FALSE

\* Loop: if !s.debugMode { return nil }
DebugModeOff(c) == ~c.DebugMode

\* A Loop that reads the device status before it toggles the outputs.
LoopStatusFirst(c) ==
    IF DebugModeOff(c) THEN << >>
    ELSE readASQ \o deviceStatus \o SetGPIO(2) \o SetGPIO(4)

Loop(c) ==
    IF DebugModeOff(c) THEN << >>
    ELSE readASQ \o SetGPIO(2) \o SetGPIO(4) \o deviceStatus

beginRDS(programID, alternateFrequency) ==
    <<setProperty(PROP_TX_AUDIO_DEVIATION, 6625),
      setProperty(PROP_TX_RDS_DEVIATION, 200),
      setProperty(PROP_TX_RDS_INTERRUPT_SOURCE, 1),
      setProperty(PROP_TX_RDS_PI, programID),
      setProperty(PROP_TX_RDS_PS_MIX, 3),
      setProperty(PROP_TX_RDS_PS_MISC, 6152),
      setProperty(PROP_TX_RDS_PS_REPEAT_COUNT, 3),
      setProperty(PROP_TX_RDS_MESSAGE_COUNT, 1),
      setProperty(PROP_TX_RDS_PS_AF, alternateFrequency),
      setProperty(PROP_TX_RDS_FIFO_SIZE, 0),
      setProperty(PROP_TX_COMPONENT_ENABLE, 7)>>

\* A padding with NUL bytes.
PadNul(str) ==
    LET i == Len(str) - (Len(str) \div 4) * 4
    IN  IF i > 0 THEN str \o [x \in 1..(4 - i) |-> 0] ELSE str

\* The padding loop of SetRDSStation and SetRDSMessage:
\* for i := len - (len/4)*4; i > 0 && i < 4; i++ { append ' ' }.
Pad(str) ==
    LET i == Len(str) - (Len(str) \div 4) * 4
    IN  IF i > 0 THEN str \o [x \in 1..(4 - i) |-> SP] ELSE str

\* slots := uint8((len + 3) / 4)
Slots(str) == ((Len(str) + 3) \div 4) % 256

SetRDSStation(stationName) ==
    LET name == Pad(stationName)
    IN  [s \in 1..Slots(stationName) |->
           Send("cmdSetRDSStationName",
                <<<<2, s - 1>>, <<3, name[4 * (s - 1) + 1]>>, <<4, name[4 * (s - 1) + 2]>>,
                  <<5, name[4 * (s - 1) + 3]>>, <<6, name[4 * (s - 1) + 4]>>>>)]

\* A SetRDSMessage that leaves the time frame out.
setRDSTimeSkipped == << >>

\* A setRDSTime that assigns the four time bytes alone.
setRDSTimeBytesOnly ==
    <<Send("cmdSetRDSMessage", <<<<5, 167>>, <<6, 11>>, <<7, 45>>, <<8, 108>>>>)>>

setRDSTime ==
    <<Send("cmdSetRDSMessage",
           <<<<1, CMD_TX_RDS_BUFF>>, <<2, 132>>, <<3, 64>>, <<4, 1>>, <<5, 167>>,
             <<6, 11>>, <<7, 45>>, <<8, 108>>>>)>>

\* A message type that marks every slot as the first.
RDSBufferTypeFirst(i) == 6

\* SetRDSMessage: the type byte of slot i, 0x06 for i == 0 and 0x04 after.
RDSBufferType(i) == IF i = 0 THEN 6 ELSE 4

SetRDSMessage(message) ==
    LET msg == Pad(message)
    IN  [s \in 1..Slots(message) |->
           Send("cmdSetRDSMessage",
                <<<<1, CMD_TX_RDS_BUFF>>, <<2, RDSBufferType(s - 1)>>, <<3, 32>>,
                  <<4, s - 1>>, <<5, msg[4 * (s - 1) + 1]>>, <<6, msg[4 * (s - 1) + 2]>>,
                  <<7, msg[4 * (s - 1) + 3]>>, <<8, msg[4 * (s - 1) + 4]>>>>)]
        \o setRDSTime
        \o <<setProperty(PROP_TX_COMPONENT_ENABLE, 7)>>

\* An EnableRDS that sends the station name before the properties.
EnableRDSStationFirst(c) ==
    SetRDSStation(c.StationName)
    \o beginRDS(c.ProgramID, c.AlternateFrequency)
    \o SetRDSMessage(c.RdsMessage)

EnableRDS(c) ==
    beginRDS(c.ProgramID, c.AlternateFrequency)
    \o SetRDSStation(c.StationName)
    \o SetRDSMessage(c.RdsMessage)

\* The head of the loop of scanFrequencies, at frequency f.
scanFrequencies == <<Step("scan", "", << >>, ScanFrom)>>

scanTransmitFrequency(c) == readTuneMeasure(c.TransmitFrequency) \o readTuneStatus

\* A stop that needs the scan to be enabled as well.
ForcedStopWithScanOnly(c) == c.StopAfterFrequencyScan /\ c.WithFrequencyScan

\* Start: if s.stopAfterFrequencyScan { return fmt.Errorf("forced stop ...") }
ForcedStop(c) == c.StopAfterFrequencyScan

\* Start, after its check of the configuration: the steps up to the return.
StartSteps(c) ==
    <<Step("connect", "", << >>, 0)>>
    \o begin
    \o (IF c.WithFrequencyScan THEN scanFrequencies ELSE << >>)
    \o (IF ForcedStop(c)
          THEN <<Step("ret", "errForcedStop", << >>, 0)>>
          ELSE (IF c.WithFrequencyScan THEN scanTransmitFrequency(c) ELSE << >>)
               \o setTxPower(c.TransmitPower, 0)
               \o tuneFM(c.TransmitFrequency)
               \o readTuneStatus
               \o (IF c.HasRDS THEN EnableRDS(c) ELSE << >>)
               \o setGPIOCtrl(6))

\* ------------------------------------------------------------------- state
VARIABLES
    impl,             \* the revision of the driver: "radio.go" or "part_001"
    adaptor,          \* the connector: "test" (I2CTestAdaptor), "bus" (a real
                      \* bus with digital output), "busNoPins" (one without)
    driver,           \* "none", "built" or "panicked"
    cfg,              \* the driver's configuration fields
    conn,             \* s.conn is not nil
    tmpl,             \* the package-level command buffers (radio.go)
    op,               \* the operation running or last run
    result,           \* "running", or how op returned
    todo,             \* the steps op still has to perform
    nops,             \* operations invoked so far
    notices,          \* the notices passed to the Log function so far
    passed,           \* the configuration the caller passed to NewSi4713Driver
                      \* or built the driver from
    checked,          \* the parameter cfg of NewSi4713Driver as Validate left it
    validations,      \* calls of Validate by op
    text,             \* the string passed to op (SetRDSStation, SetRDSMessage)
    freq,             \* the frequency passed to op (tuneFM, readTuneMeasure)
    lastWritten,      \* I2CTestAdaptor.lastWritten
    getRevPassCount,  \* the counter of the test adaptor's read closure
    written,          \* the frames op has written through sendCommand, in order
    polls,            \* the interrupt-status reads of the wait loop in progress
                      \* or left by the last step
    pins,             \* the levels written to the reset pin by op, in order
    pinName,          \* the pin name of the last DigitalWrite
    hsReads,          \* the status bytes read by the handshake in progress
                      \* or completed by the last step
    lastIO,           \* the last bus operation of op and its outcome
    partNumber,       \* the part number returned by getRev, -1 before
    tuneStatus,       \* what the readTuneStatus the caller invoked returns
    errCounts,        \* the two counts in the error of buffRead, << >> without
    other,            \* a second goroutine inside an operation, while the
                      \* first one runs: its op, result, todo and hsReads
    peer              \* a second driver of the process, on a bus and a chip
                      \* of its own: its operation and the frames on its bus

vars == <<impl, adaptor, driver, cfg, conn, tmpl, op, result, todo, nops, notices,
          passed, checked, validations, text, freq, lastWritten, getRevPassCount,
          written, polls, pins, pinName, hsReads, lastIO, partNumber, tuneStatus,
          errCounts, other, peer>>

Impls == {"radio.go", "part_001"}
Adaptors == {"test", "bus", "busNoPins"}

\* What the device may answer.
StatusBytes == {0, 1, 128, 129, 133}
DataBytes == {0, 37}
PartNumbers == {0, 12, 13, 128}

NoIO == [k |-> "none", ok |-> TRUE, val |-> 0]

\* The named results of readTuneStatus before any assignment.
NoTuneStatus == [currFreq |-> 0, currdBuV |-> 0, currAntCap |-> 0, currNoiseLevel |-> 0]

\* No second goroutine.
NoCaller == [op |-> "none", result |-> "none", todo |-> << >>, hsReads |-> << >>]
IO(k, ok, val) == [k |-> k, ok |-> ok, val |-> val]

\* No second driver at work.
NoPeer ==
    [op |-> "none", result |-> "none", steps |-> << >>, at |-> 0, phase |-> "none",
     cmd |-> << >>, written |-> << >>, busy |-> 0, nops |-> 0]

\* The state before a driver exists, whatever the caller is about to pass.
InitDriver ==
    /\ impl \in Impls
    /\ adaptor \in Adaptors
    /\ driver = "none"
    /\ cfg = BaseConfig
    /\ conn = FALSE
    /\ tmpl = Templates
    /\ op = "none"
    /\ result = "none"
    /\ todo = << >>
    /\ nops = 0
    /\ notices = << >>
    /\ checked = BaseConfig
    /\ validations = 0
    /\ text = StrEmpty
    /\ freq = 0
    /\ lastWritten = << >>
    /\ getRevPassCount = 0
    /\ written = << >>
    /\ polls = 0
    /\ pins = << >>
    /\ pinName = StrEmpty
    /\ hsReads = << >>
    /\ lastIO = NoIO
    /\ partNumber = -1
    /\ tuneStatus = NoTuneStatus
    /\ errCounts = << >>
    /\ other = NoCaller
    /\ peer = NoPeer

Init == InitDriver /\ passed = BaseConfig

\* ------------------------------------------------------------ construction
\* NewSi4713Driver(connector, cfg): Validate, then copy into the driver.
NewSi4713Driver(c) ==
    /\ driver = "none"
    /\ op = "none"
    /\ LET v == Validate(c)
       IN  /\ driver' = (IF v.res = "ok" THEN "built"
                         ELSE IF v.res = "panic" THEN "panicked" ELSE "none")
           /\ cfg' = (IF v.res = "ok" THEN v.cfg ELSE cfg)
           /\ notices' = notices \o v.notices
           /\ checked' = v.cfg
           /\ result' = v.res
    /\ passed' = c
    /\ validations' = 1
    /\ text' = text
    /\ op' = "NewSi4713Driver"
    /\ UNCHANGED <<impl, adaptor, conn, tmpl, todo, nops, lastWritten,
                   getRevPassCount, written, polls, pins, pinName, hsReads, lastIO,
                   partNumber, freq, tuneStatus, errCounts, other, peer>>

\* A driver built as a struct value, not through NewSi4713Driver (the case
\* the check at the head of Start is there for).
Si4713Driver(c) ==
    /\ driver = "none"
    /\ op = "none"
    /\ driver' = "built"
    /\ cfg' = c
    /\ passed' = c
    /\ op' = "Si4713Driver"
    /\ result' = "ok"
    /\ UNCHANGED <<checked, validations, text>>
    /\ UNCHANGED <<impl, adaptor, conn, tmpl, todo, nops, notices, lastWritten,
                   getRevPassCount, written, polls, pins, pinName, hsReads, lastIO,
                   partNumber, freq, tuneStatus, errCounts, other, peer>>

\* -------------------------------------------------------------- operations
Idle == driver = "built" /\ result # "running" /\ nops < MaxOps

\* The steps that follow `rest`: the head of the scan loop is unrolled.
RECURSIVE Norm(_)
Norm(rest) ==
    IF rest # << >> /\ Head(rest).k = "scan"
      THEN IF Head(rest).n < ScanTo
             THEN readTuneMeasure(Head(rest).n) \o readTuneStatus
                  \o <<Step("scan", "", << >>, Head(rest).n + ScanStep)>>
                  \o Tail(rest)
             ELSE Norm(Tail(rest))
      ELSE rest

\* The operation goes on with the steps `rest`, or returns.
Continue(rest) ==
    LET r == Norm(rest)
    IN  IF r = << >>
          THEN todo' = << >> /\ result' = "ok"
        ELSE IF Head(r).k = "ret"
          THEN todo' = << >> /\ result' = Head(r).t
        ELSE todo' = r /\ result' = "running"

\* The operation returns the error err.
Abort(err) == todo' = << >> /\ result' = err

\* An operation begins: what is recorded about the previous one is dropped.
Begin(name) ==
    /\ op' = name
    /\ nops' = nops + 1
    /\ written' = << >>
    /\ polls' = 0
    /\ pins' = << >>
    /\ hsReads' = << >>
    /\ lastIO' = NoIO
    /\ partNumber' = -1
    /\ checked' = BaseConfig
    /\ tuneStatus' = NoTuneStatus
    /\ errCounts' = << >>

\* The check at the head of Start (radio.go).
StartCheck(c) ==
    IF c.TransmitFrequency = 0 THEN "errFrequencyNotSet"
    ELSE IF c.TransmitFrequency < StartMinFrequency \/ c.TransmitFrequency > MaxFrequency
      THEN "errFrequencyBounds"
    ELSE "ok"

\* Start, up to GetConnection.  The robot starts a device once, before it
\* invokes any other operation on it.
Start ==
    /\ Idle
    /\ nops = 0
    /\ Begin("Start")
    /\ IF impl = "radio.go"
         THEN /\ IF StartCheck(cfg) = "ok"
                   THEN Continue(StartSteps(cfg))
                   ELSE Abort(StartCheck(cfg))
              /\ validations' = 0
              /\ UNCHANGED <<cfg, notices, driver>>
         ELSE LET v == Validate(cfg)
              IN  /\ cfg' = v.cfg
                  /\ notices' = notices \o v.notices
                  /\ validations' = 1
                  /\ driver' = (IF v.res = "panic" THEN "panicked" ELSE driver)
                  /\ IF v.res = "ok"
                       THEN Continue(StartSteps(v.cfg))
                       ELSE Abort(v.res)
    /\ text' = StrEmpty
    /\ freq' = 0
    /\ UNCHANGED <<passed, impl, adaptor, conn, tmpl, lastWritten,
                   getRevPassCount, pinName, other, peer>>

\* Halt: powerDown.  Without a connection the call through the nil
\* interface panics.
Halt ==
    /\ Idle
    /\ Begin("Halt")
    /\ IF conn
         THEN Continue(powerDown) /\ UNCHANGED driver
         ELSE Abort("panic") /\ driver' = "panicked"
    /\ validations' = 0
    /\ text' = StrEmpty
    /\ freq' = 0
    /\ UNCHANGED passed
    /\ UNCHANGED <<impl, adaptor, cfg, conn, tmpl, notices, lastWritten,
                   getRevPassCount, pinName, other, peer>>

\* ------------------------------------------------------------ the bus
\* The opcodes the read closure of NewI2cTestAdaptor knows.
TestKnown ==
    {CMD_POWER_UP, CMD_SET_PROPERTY, CMD_TX_TUNE_POWER, CMD_TX_TUNE_FREQ,
     CMD_GET_INT_STATUS, CMD_TX_TUNE_STATUS, CMD_TX_TUNE_MEASURE, CMD_TX_RDS_PS,
     CMD_TX_RDS_BUFF, CMD_GPO_CTL, CMD_TX_ASQ_STATUS, CMD_GPO_SET, CMD_GET_REV}

\* The read closure of NewI2cTestAdaptor on a buffer of `size` bytes: the
\* outcomes [n, first, cnt]: bytes returned, buff[0], the new pass count.
I2cReadImpl(size) ==
    LET opc == lastWritten[1]
        cnt == IF opc = CMD_GET_REV THEN getRevPassCount + 1 ELSE getRevPassCount
    IN  IF opc \in TestKnown
          THEN {[n |-> 1, cnt |-> cnt,
                 first |-> IF opc = CMD_GET_INT_STATUS THEN 129
                           ELSE IF opc = CMD_GET_REV /\ cnt = 3 THEN 13
                           ELSE STATUS_CTS]}
          ELSE {[n |-> size, first |-> b, cnt |-> getRevPassCount] : b \in {0, 1}}

\* conn.ReadByte(): the outcomes [ok, val, cnt], val drawn from `bytes` on a
\* real bus.
ReadByte(bytes) ==
    IF adaptor = "test"
      THEN {[ok |-> r.n = 1, val |-> r.first, cnt |-> r.cnt] : r \in I2cReadImpl(1)}
      ELSE {[ok |-> FALSE, val |-> 0, cnt |-> getRevPassCount]}
           \cup {[ok |-> TRUE, val |-> b, cnt |-> getRevPassCount] : b \in bytes}

\* conn.Read(values) on a buffer of `size` bytes: the outcomes
\* [ok, n, second, cnt]: n bytes returned, values[1] among them.
Read(size) ==
    IF adaptor = "test"
      THEN {[ok |-> TRUE, n |-> r.n, second |-> b, cnt |-> r.cnt]
              : r \in I2cReadImpl(size), b \in {0, 1}}
      ELSE {[ok |-> FALSE, n |-> 0, second |-> 0, cnt |-> getRevPassCount]}
           \cup {[ok |-> TRUE, n |-> k, second |-> 0, cnt |-> getRevPassCount]
                   : k \in 0..(size - 1)}
           \cup {[ok |-> TRUE, n |-> size, second |-> b, cnt |-> getRevPassCount]
                   : b \in PartNumbers}

\* A write (Write, WriteByte, DigitalWrite, GetConnection) may fail on a real
\* bus only.
WriteOutcomes == IF adaptor = "test" THEN {TRUE} ELSE {TRUE, FALSE}

\* ------------------------------------------------------------------- steps
Running(kind) == result = "running" /\ todo # << >> /\ Head(todo).k = kind

\* s.conn, err = s.i2cConnector.GetConnection(s.i2cAddr, bus)
GetConnection ==
    /\ Running("connect")
    /\ \E ok \in WriteOutcomes :
         /\ lastIO' = IO("GetConnection", ok, 0)
         /\ IF ok
              THEN conn' = TRUE /\ Continue(Tail(todo))
              ELSE /\ conn' = (IF impl = "radio.go" THEN FALSE ELSE conn)
                   /\ Abort("errConnection")
    /\ hsReads' = << >>
    /\ polls' = 0
    /\ UNCHANGED <<passed, checked, validations, text>>
    /\ UNCHANGED <<freq, tuneStatus, errCounts, other, peer>>
    /\ UNCHANGED <<impl, adaptor, driver, cfg, tmpl, op, nops, notices, lastWritten,
                   getRevPassCount, written, pins, pinName, partNumber>>

\* reset: dw, ok := s.i2cConnector.(gpio.DigitalWriter)
DigitalWriter ==
    /\ Running("digitalWriter")
    /\ IF adaptor = "busNoPins"
         THEN Abort("errNoDigitalWriter")
         ELSE Continue(Tail(todo))
    /\ hsReads' = << >>
    /\ polls' = 0
    /\ UNCHANGED <<passed, checked, validations, text>>
    /\ UNCHANGED <<freq, tuneStatus, errCounts, other, peer>>
    /\ UNCHANGED <<impl, adaptor, driver, cfg, conn, tmpl, op, nops, notices,
                   lastWritten, getRevPassCount, written, pins, pinName, lastIO,
                   partNumber>>

\* reset: dw.DigitalWrite(s.resetPin, level)
DigitalWrite ==
    /\ Running("dw")
    /\ \E ok \in WriteOutcomes :
         /\ lastIO' = IO("DigitalWrite", ok, Head(todo).n)
         /\ IF ok
              THEN /\ pins' = Append(pins, Head(todo).n)
                   /\ pinName' = cfg.ResetPin
                   /\ Continue(Tail(todo))
              ELSE /\ UNCHANGED <<pins, pinName>>
                   /\ Abort("errBus")
    /\ hsReads' = << >>
    /\ polls' = 0
    /\ UNCHANGED <<passed, checked, validations, text>>
    /\ UNCHANGED <<freq, tuneStatus, errCounts, other, peer>>
    /\ UNCHANGED <<impl, adaptor, driver, cfg, conn, tmpl, op, nops, notices,
                   lastWritten, getRevPassCount, written, partNumber>>

\* A sendCommand that waits for clear-to-send after every frame.
NoHandshakeNever(cmd) == FALSE

\* sendCommand: the frame is not followed by the wait for clear-to-send.
NoHandshake(cmd) == cmd[1] = tmpl.cmdPowerDown[1]

\* A wait that ends on any status byte other than zero.
ClearToSendNonZero(status) == status # 0

\* A wait that no status byte ends.
ClearToSendNever(status) == FALSE

\* sendCommand: the condition that ends the wait, status&STATUS_CTS != 0.
ClearToSend(status) == HasBit(status, STATUS_CTS)

\* The command of a "send" step: the template (radio.go) or a fresh buffer
\* (part_001) with the step's bytes assigned.
CommandOn(tm, st) ==
    Assign(IF impl = "radio.go" THEN tm[st.t] ELSE Templates[st.t], st.set)

Command(st) == CommandOn(tmpl, st)

\* sendCommand: if s.debugMode { s.debugLog(...) } with no DebugLog function
\* (a driver not built through NewSi4713Driver) calls a nil function.
DebugLogPanics == cfg.DebugMode /\ ~cfg.DebugLog

\* sendCommand, first half: s.conn.Write(cmd).
Write ==
    /\ Running("send")
    /\ LET cmd == Command(Head(todo))
       IN  /\ tmpl' = (IF impl = "radio.go"
                         THEN [tmpl EXCEPT ![Head(todo).t] = cmd] ELSE tmpl)
           /\ IF DebugLogPanics
                THEN /\ Abort("panic")
                     /\ driver' = "panicked"
                     /\ UNCHANGED <<written, lastWritten, lastIO>>
                ELSE /\ driver' = driver
                     /\ \E ok \in WriteOutcomes :
                          /\ lastIO' = IO("Write", ok, cmd[1])
                          /\ IF ok
                               THEN /\ written' = Append(written, cmd)
                                    /\ lastWritten' =
                                         (IF adaptor = "test" THEN cmd ELSE lastWritten)
                                    /\ IF NoHandshake(cmd)
                                         THEN Continue(Tail(todo))
                                         ELSE Continue(<<Step("cts", "", << >>, 0)>>
                                                       \o Tail(todo))
                               ELSE /\ UNCHANGED <<written, lastWritten>>
                                    /\ Abort("errBus")
    /\ hsReads' = << >>
    /\ polls' = 0
    /\ UNCHANGED <<passed, checked, validations, text>>
    /\ UNCHANGED <<freq, tuneStatus, errCounts, other, peer>>
    /\ UNCHANGED <<impl, adaptor, cfg, conn, op, nops, notices,
                   getRevPassCount, pins, pinName, partNumber>>

\* sendCommand, second half: one turn of the loop
\* for status&STATUS_CTS == 0 { status, err = s.conn.ReadByte() ... }.
ReadStatus ==
    /\ Running("cts")
    /\ \E r \in ReadByte(StatusBytes) :
         /\ lastIO' = IO("ReadByte", r.ok, r.val)
         /\ getRevPassCount' = r.cnt
         /\ IF ~r.ok
              THEN hsReads' = hsReads /\ Abort("errBus")
              ELSE /\ ClearToSend(r.val) \/ Len(hsReads) < MaxBusy
                   /\ hsReads' = Append(hsReads, r.val)
                   /\ IF ClearToSend(r.val)
                        THEN Continue(Tail(todo))
                        ELSE Continue(todo)
    /\ polls' = 0
    /\ UNCHANGED <<passed, checked, validations, text>>
    /\ UNCHANGED <<freq, tuneStatus, errCounts, other, peer>>
    /\ UNCHANGED <<impl, adaptor, driver, cfg, conn, tmpl, op, nops, notices,
                   lastWritten, written, pins, pinName, partNumber>>

\* A begin that takes any part number but zero.
BegunNonZero(status) == status # 0

\* begin: status == 13
Begun(status) == status = PartNumberSi4713

\* buffRead: the counts in fmt.Errorf("failed to read %d bytes from the
\* line, read %d -> %s", size, len(values), ...), where values was made
\* with length size and conn.Read returned nValues.
ShortReadCounts(size, nValues) == <<size, size>>

\* buffRead(size), and for getRev what begin and Start do with the result.
BuffRead ==
    /\ Running("buffRead")
    /\ \E r \in Read(Head(todo).n) :
         /\ lastIO' = IO("Read", r.ok, r.n)
         /\ getRevPassCount' = r.cnt
         /\ errCounts' = (IF r.ok /\ r.n # Head(todo).n
                            THEN ShortReadCounts(Head(todo).n, r.n) ELSE errCounts)
         /\ IF ~r.ok
              THEN Abort("errBus") /\ UNCHANGED partNumber
            ELSE IF r.n # Head(todo).n
              THEN Abort("errShortRead") /\ UNCHANGED partNumber
            ELSE IF Head(todo).t = "rev"
              THEN /\ partNumber' = r.second
                   /\ IF Begun(r.second)
                        THEN Continue(Tail(todo))
                        ELSE Abort("errNotFound")
            ELSE Continue(Tail(todo)) /\ UNCHANGED partNumber
    /\ hsReads' = << >>
    /\ polls' = 0
    /\ UNCHANGED <<passed, checked, validations, text>>
    /\ UNCHANGED <<freq, tuneStatus, other, peer>>
    /\ UNCHANGED <<impl, adaptor, driver, cfg, conn, tmpl, op, nops, notices,
                   lastWritten, written, pins, pinName>>

\* readTuneStatus: its named results after the ReadByte for response byte
\* `name` has returned val: assigned on success; on failure 0, 0, 0, 0 is
\* returned, but for the last byte, where the results are returned as they
\* stand.
TuneStatusAfter(ts, name, ok, val) ==
    IF name = "noise" THEN [ts EXCEPT !.currNoiseLevel = val]
    ELSE IF ~ok THEN NoTuneStatus
    ELSE IF name = "freqHi" THEN [ts EXCEPT !.currFreq = val * 256]
    ELSE IF name = "freqLo" THEN [ts EXCEPT !.currFreq = (ts.currFreq \div 256) * 256 + val]
    ELSE IF name = "dBuV" THEN [ts EXCEPT !.currdBuV = val]
    ELSE IF name = "antCap" THEN [ts EXCEPT !.currAntCap = val]
    ELSE ts

\* readTuneStatus: one of its eight s.conn.ReadByte() calls.  Start and
\* scanFrequencies pass the results to the debug log only; they are kept
\* for a readTuneStatus that was called on its own.
ReadTuneByte ==
    /\ Running("readByte")
    /\ \E r \in ReadByte(DataBytes) :
         /\ lastIO' = IO("ReadByte", r.ok, r.val)
         /\ getRevPassCount' = r.cnt
         /\ tuneStatus' = (IF op = "readTuneStatus"
                             THEN TuneStatusAfter(tuneStatus, Head(todo).t, r.ok, r.val)
                             ELSE tuneStatus)
         /\ IF r.ok THEN Continue(Tail(todo)) ELSE Abort("errBus")
    /\ hsReads' = << >>
    /\ polls' = 0
    /\ UNCHANGED <<passed, checked, validations, text>>
    /\ UNCHANGED <<freq, errCounts, other, peer>>
    /\ UNCHANGED <<impl, adaptor, driver, cfg, conn, tmpl, op, nops, notices,
                   lastWritten, written, pins, pinName, partNumber>>

\* What the wait loop does when getStatus fails: tuneFM returns nil,
\* readTuneMeasure returns the error.
GetStatusFailed(loop) == IF loop = "tune" THEN "nil" ELSE "errBus"

\* A wait loop that ends on clear-to-send alone.
TuneCompleteOnCts(loop, status) == HasBit(status, 128)

\* The condition that ends the wait loop.
TuneComplete(loop, status) == IF loop = "tune" THEN Has81(status) ELSE status = 129

\* getStatus: s.conn.WriteByte(CMD_GET_INT_STATUS)
GetStatusWrite ==
    /\ Running("intW")
    /\ \E ok \in WriteOutcomes :
         /\ lastIO' = IO("WriteByte", ok, CMD_GET_INT_STATUS)
         /\ IF ok
              THEN /\ lastWritten' = (IF adaptor = "test"
                                        THEN <<CMD_GET_INT_STATUS>> ELSE lastWritten)
                   /\ Continue(<<Step("intR", Head(todo).t, << >>, 0)>> \o Tail(todo))
              ELSE /\ UNCHANGED lastWritten
                   /\ IF GetStatusFailed(Head(todo).t) = "nil"
                        THEN Continue(Tail(todo))
                        ELSE Abort(GetStatusFailed(Head(todo).t))
    /\ hsReads' = << >>
    /\ UNCHANGED <<passed, checked, validations, text>>
    /\ UNCHANGED <<freq, tuneStatus, errCounts, other, peer>>
    /\ UNCHANGED <<impl, adaptor, driver, cfg, conn, tmpl, op, nops, notices,
                   getRevPassCount, written, polls, pins, pinName, partNumber>>

\* getStatus: s.conn.ReadByte(), and the test of the wait loop on it.
GetStatusRead ==
    /\ Running("intR")
    /\ \E r \in ReadByte(StatusBytes) :
         /\ lastIO' = IO("ReadByte", r.ok, r.val)
         /\ getRevPassCount' = r.cnt
         /\ IF ~r.ok
              THEN /\ polls' = polls
                   /\ IF GetStatusFailed(Head(todo).t) = "nil"
                        THEN Continue(Tail(todo))
                        ELSE Abort(GetStatusFailed(Head(todo).t))
              ELSE /\ TuneComplete(Head(todo).t, r.val) \/ polls < MaxPolls
                   /\ polls' = polls + 1
                   /\ IF TuneComplete(Head(todo).t, r.val)
                        THEN Continue(Tail(todo))
                        ELSE Continue(<<Step("intW", Head(todo).t, << >>, 0)>> \o Tail(todo))
    /\ hsReads' = << >>
    /\ UNCHANGED <<passed, checked, validations, text>>
    /\ UNCHANGED <<freq, tuneStatus, errCounts, other, peer>>
    /\ UNCHANGED <<impl, adaptor, driver, cfg, conn, tmpl, op, nops, notices,
                   lastWritten, written, pins, pinName, partNumber>>

\* ----------------------------------------------------------- specification
Next ==
    \/ \E c \in Configs : NewSi4713Driver(c)
    \/ \E c \in Configs : Si4713Driver(c)
    \/ Start
    \/ Halt
    \/ GetConnection
    \/ DigitalWriter
    \/ DigitalWrite
    \/ Write
    \/ ReadStatus
    \/ BuffRead
    \/ ReadTuneByte
    \/ GetStatusWrite
    \/ GetStatusRead

Spec == Init /\ [][Next]_vars

\* ------------------------------------------------ validation, on its own
\* The configurations a caller may pass to NewSi4713Driver: every transmit
\* power of a uint8 on the base configuration, and every combination of the
\* other fields Validate looks at.
AllPowers == 0..255
ValidateInputs ==
    {[BaseConfig EXCEPT !.TransmitPower = p] : p \in AllPowers}
    \cup {[BaseConfig EXCEPT !.TransmitFrequency = f, !.TransmitPower = p,
                             !.AlternateFrequency = a, !.Log = l, !.DebugMode = d,
                             !.DebugLog = g, !.ProgramID = i, !.ResetPin = r]
            : f \in Frequencies \cup {9550}, p \in Powers \cup {115},
              a \in AltFrequencies \cup {8750}, l \in BOOLEAN, d \in BOOLEAN,
              g \in BOOLEAN, i \in {0, 12548}, r \in {StrEmpty, PinSeven}}

ValidateInit == InitDriver /\ passed \in ValidateInputs

\* cfg.Validate() called once more by the caller of NewSi4713Driver, on the
\* configuration Validate has left.
CallValidate ==
    /\ op = "NewSi4713Driver"
    /\ LET v == Validate(checked)
       IN  /\ checked' = v.cfg
           /\ notices' = notices \o v.notices
           /\ result' = v.res
    /\ validations' = validations + 1
    /\ op' = "Validate"
    /\ UNCHANGED <<impl, adaptor, driver, cfg, conn, tmpl, todo, nops, passed, text,
                   lastWritten, getRevPassCount, written, polls, pins, pinName, hsReads,
                   lastIO, partNumber, freq, tuneStatus, errCounts, other, peer>>

ValidateNext ==
    \/ NewSi4713Driver(passed)
    \/ CallValidate

ValidateSpec == ValidateInit /\ [][ValidateNext]_vars

\* ------------------------------------------------ the RDS operations
\* The frames written, and the command buffers left, once every "send" step
\* of `steps` has been carried out on fresh buffers: byte j of buffer t is
\* what the last step on t that assigns j has put there (radio.go), and a
\* frame is the buffer at the time of its step.
IsSend(st) == st.k = "send"

ByteAfter(sends, i, t, j) ==
    LET ks == {k \in 1..i : /\ sends[k].t = t
                            /\ \E a \in DOMAIN sends[k].set : sends[k].set[a][1] = j}
        last == CHOOSE k \in ks : \A m \in ks : m <= k
    IN  IF ks = {} THEN Templates[t][j]
        ELSE sends[last].set[CHOOSE a \in DOMAIN sends[last].set
                                       : sends[last].set[a][1] = j][2]

SentBy(steps) ==
    LET sends == SelectSeq(steps, IsSend)
    IN  [written |->
           [i \in DOMAIN sends |->
              IF impl = "radio.go"
                THEN [j \in DOMAIN Templates[sends[i].t]
                        |-> ByteAfter(sends, i, sends[i].t, j)]
                ELSE Assign(Templates[sends[i].t], sends[i].set)],
         tmpl |->
           IF impl = "radio.go"
             THEN [t \in DOMAIN Templates |->
                     [j \in DOMAIN Templates[t] |-> ByteAfter(sends, Len(sends), t, j)]]
             ELSE Templates]

\* The strings a caller passes: of 0, 2, 4, 5, 8 and 9 bytes, and of more
\* than 1020 bytes.
RdsTexts ==
    {StrEmpty, StrAB, StrWXYZ, StrHello, StrEight, StrNine,
     StrOfLen(1021), StrOfLen(1024), StrOfLen(1028)}

\* A driver built by NewSi4713Driver(BaseConfig) that Start has brought up
\* on a bus whose every operation succeeded at once.
RdsInit ==
    /\ impl \in Impls
    /\ adaptor = "bus"
    /\ driver = "built"
    /\ cfg = Validate(BaseConfig).cfg
    /\ conn = TRUE
    /\ tmpl = SentBy(StartSteps(cfg)).tmpl
    /\ written = SentBy(StartSteps(cfg)).written
    /\ op = "Start"
    /\ result = "ok"
    /\ todo = << >>
    /\ nops = 1
    /\ notices = << >>
    /\ passed = BaseConfig
    /\ checked = BaseConfig
    /\ validations = (IF impl = "radio.go" THEN 0 ELSE 1)
    /\ text = StrEmpty
    /\ freq = 0
    /\ lastWritten = << >>
    /\ getRevPassCount = 0
    /\ polls = 0
    /\ pins = <<high, low, high>>
    /\ pinName = PinDefault
    /\ hsReads = <<STATUS_CTS>>
    /\ lastIO = IO("ReadByte", TRUE, STATUS_CTS)
    /\ partNumber = PartNumberSi4713
    /\ tuneStatus = NoTuneStatus
    /\ errCounts = << >>
    /\ other = NoCaller
    /\ peer = NoPeer

\* An operation that sends the frames `steps`: the first sendCommand calls
\* s.conn.Write, which panics without a connection.
InvokeWith(name, str, f, steps) ==
    /\ Idle
    /\ Begin(name)
    /\ text' = str
    /\ freq' = f
    /\ validations' = 0
    /\ IF steps # << >> /\ ~conn
         THEN Abort("panic") /\ driver' = "panicked"
         ELSE Continue(steps) /\ UNCHANGED driver
    /\ UNCHANGED <<passed, impl, adaptor, cfg, conn, tmpl, notices, lastWritten,
                   getRevPassCount, pinName, other, peer>>

Invoke(name, str, steps) == InvokeWith(name, str, 0, steps)

\* s.SetRDSStation(stationName)
CallSetRDSStation(stationName) ==
    Invoke("SetRDSStation", stationName, SetRDSStation(stationName))

\* s.SetRDSMessage(message)
CallSetRDSMessage(message) ==
    Invoke("SetRDSMessage", message, SetRDSMessage(message))

RdsNext ==
    \/ \E stationName \in RdsTexts : CallSetRDSStation(stationName)
    \/ \E message \in RdsTexts : CallSetRDSMessage(message)
    \/ Write
    \/ ReadStatus

RdsSpec == RdsInit /\ [][RdsNext]_vars

\* ------------------------------------- operations on a started driver
\* The frequencies handed to tuneFM and to readTuneMeasure: the ends of the
\* uint16 range, of the low byte and of the band, and frequencies on and
\* off the steps of 5 and of 50.
TuneFrequencies == {0, 255, 256, 8750, 9550, 10800, 65535}
MeasureFrequencies == {0, 4, 8750, 8751, 8754, 8755, 8760, 8799, 65534}

\* The configurations of the started driver: debug mode off, and on.
OpsConfigs == {BaseConfig, [BaseConfig EXCEPT !.DebugMode = TRUE, !.DebugLog = TRUE]}

\* A driver built by NewSi4713Driver from a configuration of OpsConfigs that
\* Start has brought up on a bus whose every operation succeeded at once.
OpsInit ==
    /\ impl \in Impls
    /\ adaptor = "bus"
    /\ driver = "built"
    /\ passed \in OpsConfigs
    /\ cfg = Validate(passed).cfg
    /\ conn = TRUE
    /\ tmpl = SentBy(StartSteps(cfg)).tmpl
    /\ written = SentBy(StartSteps(cfg)).written
    /\ op = "Start"
    /\ result = "ok"
    /\ todo = << >>
    /\ nops = 1
    /\ notices = << >>
    /\ checked = BaseConfig
    /\ validations = (IF impl = "radio.go" THEN 0 ELSE 1)
    /\ text = StrEmpty
    /\ freq = 0
    /\ lastWritten = << >>
    /\ getRevPassCount = 0
    /\ polls = 0
    /\ pins = <<high, low, high>>
    /\ pinName = PinDefault
    /\ hsReads = <<STATUS_CTS>>
    /\ lastIO = IO("ReadByte", TRUE, STATUS_CTS)
    /\ partNumber = PartNumberSi4713
    /\ tuneStatus = NoTuneStatus
    /\ errCounts = << >>
    /\ other = NoCaller
    /\ peer = NoPeer

\* s.tuneFM(freqKHz)
CallTuneFM(freqKHz) == InvokeWith("tuneFM", StrEmpty, freqKHz, tuneFM(freqKHz))

\* s.readTuneMeasure(freq)
CallReadTuneMeasure(f) ==
    InvokeWith("readTuneMeasure", StrEmpty, f, readTuneMeasure(f))

\* s.readTuneStatus()
CallReadTuneStatus == Invoke("readTuneStatus", StrEmpty, readTuneStatus)

\* s.Loop()
CallLoop == Invoke("Loop", StrEmpty, Loop(cfg))

OpsNext ==
    \/ \E freqKHz \in TuneFrequencies : CallTuneFM(freqKHz)
    \/ \E f \in MeasureFrequencies : CallReadTuneMeasure(f)
    \/ CallReadTuneStatus
    \/ CallLoop
    \/ Halt
    \/ Write
    \/ ReadStatus
    \/ BuffRead
    \/ ReadTuneByte
    \/ GetStatusWrite
    \/ GetStatusRead

OpsSpec == OpsInit /\ [][OpsNext]_vars

\* ------------------------------------------ two goroutines on one driver
\* The driver has no lock: a second goroutine may enter an operation while
\* the first is inside one, and the scheduler may switch between them at
\* every bus operation.  The goroutine that runs is op, result, todo and
\* hsReads; the one that waits is `other`.  The two never use the same
\* command buffer here.
Caller == [op |-> op, result |-> result, todo |-> todo, hsReads |-> hsReads]

\* The pins a caller passes to SetGPIO.
GPIOPins == {2, 4}

\* The second goroutine enters the operation `name`, which sends the frames
\* `steps`, and runs.
Go(name, steps) ==
    /\ driver = "built"
    /\ result = "running"
    /\ other = NoCaller
    /\ other' = Caller
    /\ op' = name
    /\ nops' = nops + 1
    /\ hsReads' = << >>
    /\ IF conn
         THEN Continue(steps) /\ UNCHANGED driver
         ELSE Abort("panic") /\ driver' = "panicked"
    /\ UNCHANGED <<impl, adaptor, cfg, conn, tmpl, notices, passed, checked,
                   validations, text, freq, lastWritten, getRevPassCount, written,
                   polls, pins, pinName, lastIO, partNumber, tuneStatus, errCounts, peer>>

\* go s.SetGPIO(pin)
GoSetGPIO(pin) == Go("SetGPIO", SetGPIO(pin))

\* go s.Halt()
GoHalt == Go("Halt", powerDown)

\* The scheduler takes the goroutine that runs off the processor and lets
\* the other one go on.
Switch ==
    /\ other.result = "running"
    /\ other' = Caller
    /\ op' = other.op
    /\ result' = other.result
    /\ todo' = other.todo
    /\ hsReads' = other.hsReads
    /\ UNCHANGED <<impl, adaptor, driver, cfg, conn, tmpl, nops, notices, passed,
                   checked, validations, text, freq, lastWritten, getRevPassCount,
                   written, polls, pins, pinName, lastIO, partNumber, tuneStatus,
                   errCounts, peer>>

\* The first goroutine makes its calls one after the other; inside one of
\* them the second goroutine is started.
CallersNext ==
    \/ other = NoCaller /\ \E stationName \in {StrAB, StrHello} : CallSetRDSStation(stationName)
    \/ \E pin \in GPIOPins : GoSetGPIO(pin)
    \/ GoHalt
    \/ Switch
    \/ Write
    \/ ReadStatus

CallersSpec == RdsInit /\ [][CallersNext]_vars

\* -------------------------------------------------------------- two drivers
\* A second driver of the same process (a second NewSi4713Driver, on another
\* bus), started as well, with one goroutine of its own that runs
\* concurrently with the caller of the first driver.  In radio.go both
\* drivers use the package-level command buffers; the second driver's
\* assignments to a buffer and its s.conn.Write(cmd) are steps of their own,
\* between which the first driver may run.

\* The second driver enters the operation `name`, which sends `steps`.
PeerInvoke(name, steps) ==
    /\ driver = "built"
    /\ peer.result # "running"
    /\ peer.nops < MaxOps - 1
    /\ peer' = [op |-> name, result |-> (IF steps = << >> THEN "ok" ELSE "running"),
                steps |-> steps, at |-> 1, phase |-> "assign", cmd |-> << >>,
                written |-> << >>, busy |-> 0, nops |-> peer.nops + 1]
    /\ UNCHANGED <<impl, adaptor, driver, cfg, conn, tmpl, op, result, todo, nops,
                   notices, passed, checked, validations, text, freq, lastWritten,
                   getRevPassCount, written, polls, pins, pinName, hsReads, lastIO,
                   partNumber, tuneStatus, errCounts, other>>

\* peer.SetRDSStation(stationName)
PeerSetRDSStation(stationName) ==
    PeerInvoke("SetRDSStation", SetRDSStation(stationName))

\* The second driver fills in its command: radio.go assigns the bytes of the
\* package-level buffer (cmdSetRDSStationName[1] = ... and so on), part_001
\* builds a new frame.
PeerAssign ==
    /\ peer.result = "running" /\ peer.phase = "assign"
    /\ LET st == peer.steps[peer.at]
       IN  IF impl = "radio.go"
             THEN /\ tmpl' = [tmpl EXCEPT ![st.t] = Assign(tmpl[st.t], st.set)]
                  /\ peer' = [peer EXCEPT !.phase = "write"]
             ELSE /\ tmpl' = tmpl
                  /\ peer' = [peer EXCEPT !.phase = "write",
                                          !.cmd = Assign(Templates[st.t], st.set)]
    /\ UNCHANGED <<impl, adaptor, driver, cfg, conn, op, result, todo, nops,
                   notices, passed, checked, validations, text, freq, lastWritten,
                   getRevPassCount, written, polls, pins, pinName, hsReads, lastIO,
                   partNumber, tuneStatus, errCounts, other>>

\* The second driver's sendCommand, first half: s.conn.Write(cmd), where cmd
\* is the package-level buffer as it is now (radio.go) or the frame built.
PeerWrite ==
    /\ peer.result = "running" /\ peer.phase = "write"
    /\ LET cmd == IF impl = "radio.go" THEN tmpl[peer.steps[peer.at].t] ELSE peer.cmd
       IN  \E ok \in WriteOutcomes :
             peer' = IF ~ok THEN [peer EXCEPT !.result = "errBus"]
                     ELSE [peer EXCEPT !.written = Append(peer.written, cmd),
                                       !.phase = "cts", !.busy = 0]
    /\ UNCHANGED <<impl, adaptor, driver, cfg, conn, tmpl, op, result, todo, nops,
                   notices, passed, checked, validations, text, freq, lastWritten,
                   getRevPassCount, written, polls, pins, pinName, hsReads, lastIO,
                   partNumber, tuneStatus, errCounts, other>>

\* The second driver's sendCommand, second half: one s.conn.ReadByte() of
\* the wait for clear-to-send, on its own bus.
PeerReadStatus ==
    /\ peer.result = "running" /\ peer.phase = "cts"
    /\ \E r \in ReadByte(StatusBytes) :
         IF ~r.ok
           THEN peer' = [peer EXCEPT !.result = "errBus"]
           ELSE /\ ClearToSend(r.val) \/ peer.busy < MaxBusy
                /\ peer' = IF ~ClearToSend(r.val)
                             THEN [peer EXCEPT !.busy = peer.busy + 1]
                           ELSE IF peer.at = Len(peer.steps)
                             THEN [peer EXCEPT !.result = "ok", !.phase = "none"]
                           ELSE [peer EXCEPT !.at = peer.at + 1, !.phase = "assign"]
    /\ UNCHANGED <<impl, adaptor, driver, cfg, conn, tmpl, op, result, todo, nops,
                   notices, passed, checked, validations, text, freq, lastWritten,
                   getRevPassCount, written, polls, pins, pinName, hsReads, lastIO,
                   partNumber, tuneStatus, errCounts, other>>

\* The station names the two drivers are given.
FirstNames == {StrAB, StrWXYZ}
PeerNames == {StrHello}

InstancesNext ==
    \/ \E stationName \in FirstNames : CallSetRDSStation(stationName)
    \/ Write
    \/ ReadStatus
    \/ \E stationName \in PeerNames : PeerSetRDSStation(stationName)
    \/ PeerAssign
    \/ PeerWrite
    \/ PeerReadStatus

InstancesSpec == RdsInit /\ [][InstancesNext]_vars

\* ------------------------------------------------------------ termination
\* A driver on a bus on which every operation succeeds, on which the device
\* answers busy at most LiveBusy times in a handshake and reports a tune not
\* complete at most MaxPolls times in a wait.  The driver, once inside an
\* operation, goes on with it (weak fairness of the steps); whether and
\* when the caller invokes the next operation is left open.
LiveConfigs ==
    {[BaseConfig EXCEPT !.DebugMode = TRUE, !.DebugLog = TRUE],
     [BaseConfig EXCEPT !.WithFrequencyScan = TRUE]}

LiveTexts == {StrAB, StrHello}

LiveInit == Init /\ adaptor = "bus"

\* No byte of `bytes` has the clear-to-send bit.
AllBusy(bytes) == \A i \in DOMAIN bytes : ~HasBit(bytes[i], 128)

\* One step of the driver inside an operation.
BusStep ==
    \/ GetConnection
    \/ DigitalWriter
    \/ DigitalWrite
    \/ Write
    \/ ReadStatus
    \/ BuffRead
    \/ ReadTuneByte
    \/ GetStatusWrite
    \/ GetStatusRead

\* The operation of the bus in this step, if any, succeeds, and the device
\* has not answered busy more than LiveBusy times in the handshake.
BusSucceeds == lastIO'.ok /\ (AllBusy(hsReads') => Len(hsReads') <= LiveBusy)

LiveNext ==
    \/ \E c \in LiveConfigs : NewSi4713Driver(c)
    \/ Start
    \/ nops < LiveOps /\ Halt
    \/ nops < LiveOps /\ CallLoop
    \/ nops < LiveOps /\ \E stationName \in LiveTexts : CallSetRDSStation(stationName)
    \/ nops < LiveOps /\ \E message \in LiveTexts : CallSetRDSMessage(message)
    \/ GetConnection /\ BusSucceeds
    \/ DigitalWriter /\ BusSucceeds
    \/ DigitalWrite /\ BusSucceeds
    \/ Write /\ BusSucceeds
    \/ ReadStatus /\ BusSucceeds
    \/ BuffRead /\ BusSucceeds
    \/ ReadTuneByte /\ BusSucceeds
    \/ GetStatusWrite /\ BusSucceeds
    \/ GetStatusRead /\ BusSucceeds

LiveSpec == LiveInit /\ [][LiveNext]_vars /\ WF_vars(BusStep /\ BusSucceeds)

\* ------------------------------------------------------------------ claims
Last(seq) == seq[Len(seq)]
Count(frames, opcode) == Cardinality({i \in DOMAIN frames : frames[i][1] = opcode})
Returned == result \notin {"none", "running"}
Failed == result \notin {"none", "running", "ok"}

\* C1: a frame other than power-down is followed by status reads, at least
\* one, up to the first status byte with bit 0x80; that byte ends the wait
\* with success, so n bytes without the bit and one with it are n + 1 reads.
C1_Handshake ==
    /\ (lastIO.k = "Write" /\ lastIO.ok /\ lastIO.val # CMD_POWER_DOWN)
          => (Running("cts") /\ hsReads = << >>)
    /\ Running("cts")
          => (written # << >> /\ Last(written)[1] # CMD_POWER_DOWN /\ AllBusy(hsReads))
    /\ (~Running("cts") /\ hsReads # << >>)
          => IF lastIO.ok
               THEN /\ HasBit(Last(hsReads), 128)
                    /\ AllBusy(SubSeq(hsReads, 1, Len(hsReads) - 1))
                    /\ result \in {"running", "ok"}
                    /\ lastIO = IO("ReadByte", TRUE, Last(hsReads))
               ELSE AllBusy(hsReads) /\ result = "errBus"

\* The status reads [0x00, 0x00, 0x80]: three reads, and the operation goes on.
C1_Witness == hsReads = <<0, 0, 128>> /\ lastIO.ok /\ result = "running"

\* C2: Halt writes the frame [0x11, 0x00] and nothing else, reads no status
\* byte after it and returns what the write returned.
C2_HaltNoHandshake ==
    (op = "Halt" /\ result # "panic")
       => /\ ~Running("cts")
          /\ hsReads = << >>
          /\ lastIO.k \in {"none", "Write"}
          /\ Returned =>
               /\ lastIO.k = "Write"
               /\ (result = "ok") = lastIO.ok
               /\ written = (IF lastIO.ok THEN <<(<<CMD_POWER_DOWN, 0>>)>> ELSE << >>)

C2_Witness == op = "Halt" /\ result = "ok" /\ written = <<(<<CMD_POWER_DOWN, 0>>)>>

\* C3: (the claim as stated) a bus operation that fails during Start makes
\* Start return an error at once.
C3_StartAbortsOnFailure == (op = "Start" /\ ~lastIO.ok) => Failed

\* C4: (the claim as stated) against the test adaptor, Start of the driver
\* built from frequency 9550, power 115, RDS, program id 0x3104, "Test",
\* "Hello" succeeds, having issued the reset pulses and then power-up, four
\* property writes, three revision queries, set-power, tune, the eleven RDS
\* properties, one station frame, two message frames, the time frame, the
\* component enable and GPIO control.
C4_Opcodes ==
    <<CMD_POWER_UP>> \o [i \in 1..4 |-> CMD_SET_PROPERTY]
    \o [i \in 1..3 |-> CMD_GET_REV]
    \o <<CMD_TX_TUNE_POWER, CMD_TX_TUNE_FREQ>>
    \o [i \in 1..11 |-> CMD_SET_PROPERTY]
    \o <<CMD_TX_RDS_PS, CMD_TX_RDS_BUFF, CMD_TX_RDS_BUFF, CMD_TX_RDS_BUFF,
         CMD_SET_PROPERTY, CMD_GPO_CTL>>

C4_IssuedButStatus(frames) ==
    LET Issued(f) == f[1] # CMD_TX_TUNE_STATUS
        sel == SelectSeq(frames, Issued)
    IN  [i \in DOMAIN sel |-> sel[i][1]]

C4_EndToEnd ==
    (adaptor = "test" /\ op = "Start" /\ Returned /\ cfg = Validate(BaseConfig).cfg)
       => /\ result = "ok"
          /\ pins = <<high, low, high>>
          /\ C4_IssuedButStatus(written) = C4_Opcodes

\* C5: (the claim as stated) the frames written before the revision query
\* are the power-up frame and exactly four set-property frames: 0x0201 =
\* 32768, 0x2106, 0x2200, 0x2204.
C5_FourProperties ==
    \A i \in DOMAIN written :
       written[i][1] = CMD_GET_REV
          => /\ i = 6
             /\ written[1] = <<CMD_POWER_UP, 18, 80>>
             /\ written[2] = <<CMD_SET_PROPERTY, 0, 2, 1, 128, 0>>
             /\ SubSeq(written[3], 1, 4) = <<CMD_SET_PROPERTY, 0, 33, 6>>
             /\ SubSeq(written[4], 1, 4) = <<CMD_SET_PROPERTY, 0, 34, 0>>
             /\ SubSeq(written[5], 1, 4) = <<CMD_SET_PROPERTY, 0, 34, 4>>

\* C6: Start takes the chip as found exactly when the part number read from
\* the revision response is 13; with any other part number it returns the
\* not-found error, having written no set-power, tune, tune-measure, RDS or
\* GPIO-control frame.
C6_AfterNotFound ==
    {CMD_TX_TUNE_POWER, CMD_TX_TUNE_FREQ, CMD_TX_TUNE_MEASURE, CMD_TX_RDS_BUFF,
     CMD_TX_RDS_PS, CMD_GPO_CTL}

C6_FoundIffThirteen ==
    op = "Start"
       => /\ (result = "errNotFound") = (partNumber \notin {-1, PartNumberSi4713})
          /\ (partNumber = -1) => (\A i \in DOMAIN written : written[i][1] \notin C6_AfterNotFound)
          /\ (partNumber \notin {-1, PartNumberSi4713})
                => /\ \A i \in DOMAIN written : written[i][1] \notin C6_AfterNotFound
                   /\ Last(written) = <<CMD_GET_REV, 0>>
                   /\ lastIO = IO("Read", TRUE, 9)

C6_Witness == op = "Start" /\ result = "errNotFound" /\ partNumber = 12

\* C7: a Start writes the get-revision frame [0x10, 0x00] at most once, and
\* exactly once when it has decided found or not found.
C7_RevisionOnce ==
    op = "Start"
       => LET revs == {i \in DOMAIN written : written[i][1] = CMD_GET_REV}
          IN  /\ Cardinality(revs) <= 1
              /\ (partNumber # -1) => Cardinality(revs) = 1
              /\ \A i \in revs : written[i] = <<CMD_GET_REV, 0>>

C7_Witness ==
    /\ op = "Start" /\ result = "ok" /\ partNumber = PartNumberSi4713
    /\ Count(written, CMD_GET_REV) = 1

\* C8: (the claim as stated) when tuneFM has returned success, so that Start
\* goes on to read the tune status, the last bus operation was the read of
\* an interrupt-status byte with both bits of 0x81 set.
C8_TuneReturnsOnComplete ==
    (op = "Start" /\ Running("send") /\ written # << >>
       /\ Last(written)[1] = CMD_TX_TUNE_FREQ)
       => lastIO.k = "ReadByte" /\ lastIO.ok /\ Has81(lastIO.val)

\* C9: a status read that succeeds without bit 0x80 leaves sendCommand
\* waiting, and an interrupt-status poll that succeeds without both bits of
\* 0x81 leaves tuneFM polling: neither returns.
C9_WaitsGoOn ==
    [][/\ (Running("cts") /\ lastIO'.ok /\ ~HasBit(lastIO'.val, 128))
             => (todo' = todo /\ result' = "running")
       /\ (Running("intW") /\ Head(todo).t = "tune" /\ lastIO'.ok)
             => (result' = "running" /\ Head(todo').k = "intR" /\ Tail(todo') = Tail(todo))
       /\ (Running("intR") /\ Head(todo).t = "tune" /\ lastIO'.ok /\ ~Has81(lastIO'.val))
             => (result' = "running" /\ Head(todo').k = "intW" /\ Tail(todo') = Tail(todo))
      ]_vars

C9_Witness ==
    /\ Running("intW") /\ Head(todo).t = "tune" /\ polls = MaxPolls
    /\ lastIO = IO("ReadByte", TRUE, 128)

\* C10: (the claim as stated) Start on a driver whose transmit frequency is 0
\* or outside [8750, 10800] returns an error before any bus operation.
C10_NoIOOnBadFrequency ==
    (op = "Start" /\ (cfg.TransmitFrequency = 0 \/ ValidateFrequencyOutOfRange(cfg)))
       => /\ Returned => Failed
          /\ ~conn /\ lastIO = NoIO /\ pins = << >> /\ written = << >>

\* How many of the notices logged so far are about the field `field`.
NoticeCount(seq, field) == Cardinality({i \in DOMAIN seq : seq[i] = field})
InBand(f) == f >= 8750 /\ f <= 10800
ConfigError == {"errFrequencyNotSet", "errFrequencyBounds"}

C12_PowerClamped ==
    (op = "NewSi4713Driver" /\ result = "ok")
       => LET p == passed.TransmitPower
          IN  /\ p < 88 => cfg.TransmitPower = 88
              /\ p > 115 => cfg.TransmitPower = 115
              /\ (p >= 88 /\ p <= 115) => cfg.TransmitPower = p
              /\ checked.TransmitPower = cfg.TransmitPower
              /\ NoticeCount(notices, "TransmitPower")
                    = (IF p < 88 \/ p > 115 THEN 1 ELSE 0)

C12_Witness ==
    /\ op = "NewSi4713Driver" /\ result = "ok"
    /\ passed.TransmitPower = 200 /\ cfg.TransmitPower = 115
    /\ notices = <<"TransmitPower">>

\* C13: NewSi4713Driver leaves an alternate frequency outside [8750, 10800]
\* at 8750, having logged the notice about it once, and one inside the range
\* as it is, without the notice; the Start that follows and its steps change
\* neither the alternate frequency nor the notices logged.
C13_AlternateFrequencyOnce ==
    [][/\ (op' = "NewSi4713Driver" /\ result' = "ok")
             => LET a == passed'.AlternateFrequency
                IN  /\ cfg'.AlternateFrequency = (IF InBand(a) THEN a ELSE 8750)
                    /\ NoticeCount(notices', "AlternateFrequency")
                          = (IF InBand(a) THEN 0 ELSE 1)
       /\ (op \in {"NewSi4713Driver", "Start"} /\ op' = "Start")
             => /\ cfg'.AlternateFrequency = cfg.AlternateFrequency
                /\ notices' = notices
      ]_vars

\* radio.go keeps the alternate frequency of a driver built as a struct
\* value, so this driver came from NewSi4713Driver.
C13_Witness ==
    /\ impl = "radio.go" /\ op = "Start" /\ result = "ok"
    /\ passed.AlternateFrequency = 10801 /\ cfg.AlternateFrequency = 8750
    /\ notices = <<"AlternateFrequency">>

\* C14: with Log unset NewSi4713Driver panics in Validate, whatever the other
\* fields are: no error is returned, no field of the configuration has been
\* changed and nothing has been logged.
C14_LogUnsetPanics ==
    (op = "NewSi4713Driver" /\ ~passed.Log)
       => /\ result = "panic"
          /\ driver = "panicked"
          /\ checked = passed
          /\ notices = << >>

\* Log unset on a configuration that would otherwise get the default reset
\* pin and fail with the frequency-not-set error.
C14_Witness ==
    /\ op = "NewSi4713Driver" /\ result = "panic" /\ ~passed.Log
    /\ passed.TransmitFrequency = 0 /\ passed.ResetPin = StrEmpty
    /\ ~passed.DebugMode /\ checked = passed

CharAt(str, k) == IF k <= Len(str) THEN str[k] ELSE 32
\* The four characters 4i .. 4i+3 of the padded str.
SlotChars(str, i) ==
    <<CharAt(str, 4 * i + 1), CharAt(str, 4 * i + 2), CharAt(str, 4 * i + 3),
      CharAt(str, 4 * i + 4)>>
\* ceil(L / 4)
CeilDiv4(L) == IF L % 4 = 0 THEN L \div 4 ELSE (L \div 4) + 1
TimeFrame == <<53, 132, 64, 1, 167, 11, 45, 108>>
ComponentEnableFrame == <<18, 0, 33, 0, 0, 7>>
IsStationSlot(f) == f[1] = 54
IsMessageSlot(f) == f[1] = 53 /\ f # TimeFrame
SlotFrames(frames, IsSlot(_)) == Cardinality({i \in DOMAIN frames : IsSlot(frames[i])})

\* C17: the i-th frame SetRDSStation writes (i = 0, 1, 2, ...) is
\* [0x36, i, c0, c1, c2, c3] with the characters 4i..4i+3 of the name padded
\* with spaces, and it writes nothing else; "WXYZ" gives the one frame
\* [0x36, 0, 'W', 'X', 'Y', 'Z'], "AB" the one frame [0x36, 0, 'A', 'B', ' ', ' ']
\* and a name of nine bytes three frames.
C17_StationSlots ==
    op = "SetRDSStation"
       => /\ \A i \in DOMAIN written :
                written[i] = <<54, i - 1>> \o SlotChars(text, i - 1)
          /\ (result = "ok" /\ text = StrWXYZ)
                => written = <<(<<54, 0, 87, 88, 89, 90>>)>>
          /\ (result = "ok" /\ text = StrAB)
                => written = <<(<<54, 0, 65, 66, 32, 32>>)>>
          /\ (result = "ok" /\ text = StrNine) => Len(written) = 3

C17_Witness ==
    /\ op = "SetRDSStation" /\ result = "ok" /\ text = StrAB
    /\ written = <<(<<54, 0, 65, 66, 32, 32>>)>>

\* C18: (the claim as stated) SetRDSStation and SetRDSMessage, when they
\* succeed on a string of L bytes, have written ceil(L/4) slot frames.
C18_SlotCount ==
    /\ (op = "SetRDSStation" /\ result = "ok")
          => SlotFrames(written, IsStationSlot) = CeilDiv4(Len(text))
    /\ (op = "SetRDSMessage" /\ result = "ok")
          => SlotFrames(written, IsMessageSlot) = CeilDiv4(Len(text))

\* C19: the i-th message-slot frame SetRDSMessage writes (i = 0, 1, ...) is
\* [0x35, type, 0x20, i, c0, c1, c2, c3], type 0x06 for i = 0 and 0x04 after,
\* with the characters 4i..4i+3 of the padded message; the message-slot
\* frames come first; an 8-character message gives two of them.
C19_MessageSlots ==
    op = "SetRDSMessage"
       => /\ \A i \in DOMAIN written :
                i <= SlotFrames(written, IsMessageSlot)
                   => written[i] = <<53, IF i = 1 THEN 6 ELSE 4, 32, i - 1>>
                                   \o SlotChars(text, i - 1)
          /\ (result = "ok" /\ text = StrEight)
                => /\ SlotFrames(written, IsMessageSlot) = 2
                   /\ written[1][2] = 6
                   /\ written[2][2] = 4

C19_Witness ==
    /\ op = "SetRDSMessage" /\ result = "ok" /\ text = StrEight
    /\ written[1] = <<53, 6, 32, 0, 82, 97, 100, 105>>
    /\ written[2] = <<53, 4, 32, 1, 111, 32, 70, 77>>

\* C20: what SetRDSMessage writes is its message-slot frames, then the time
\* frame, then the component-enable property frame, nothing else and in that
\* order; when it succeeds it has written all of them, also for the empty
\* message; when it fails, the last bus operation is the one that failed.
C20_TimeThenEnable ==
    op = "SetRDSMessage"
       => LET k == SlotFrames(written, IsMessageSlot)
          IN  /\ Len(written) <= k + 2
              /\ Len(written) >= k + 1 => written[k + 1] = TimeFrame
              /\ Len(written) = k + 2 => written[k + 2] = ComponentEnableFrame
              /\ result = "ok" => (Len(written) = k + 2 /\ lastIO.ok)
              /\ Failed => (~lastIO.ok /\ result = "errBus")
              /\ lastIO.ok => result \in {"running", "ok"}

C20_Witness ==
    /\ op = "SetRDSMessage" /\ result = "ok" /\ text = StrEmpty
    /\ written = <<TimeFrame, ComponentEnableFrame>>

\* C21: the frame tuneFM writes for the frequency f is the four bytes
\* [0x30, 0x00, f >> 8, f & 0xFF], whatever 16-bit value f is; for 9550 it
\* is [0x30, 0x00, 0x25, 0x4E].
C21_TuneFrame ==
    (op = "tuneFM" /\ written # << >>)
       => /\ written = <<(<<48, 0, freq \div 256, freq % 256>>)>>
          /\ Len(written[1]) = 4
          /\ (freq = 9550) => written[1] = <<48, 0, 37, 78>>

C21_Witness ==
    op = "tuneFM" /\ freq = 9550 /\ result = "ok" /\ written = <<(<<48, 0, 37, 78>>)>>

\* The frame [0x32, 0x00, hi, lo, 0x00] for the frequency f rounded down to
\* a multiple of `step`.
MeasureFrameOf(f, step) ==
    <<50, 0, (f - (f % step)) \div 256, (f - (f % step)) % 256, 0>>

\* C22: (the claim as stated) the frame readTuneMeasure writes carries the
\* frequency rounded down to a multiple of 50 hundredths of a MHz.
C22_RoundedToFifty ==
    (op = "readTuneMeasure" /\ written # << >>)
       => written = <<MeasureFrameOf(freq, 50)>>

\* C22: the frame readTuneMeasure writes is [0x32, 0x00, hi, lo, 0x00] with
\* the frequency rounded down to a multiple of 5 hundredths of a MHz
\* (50 kHz), high byte first.
C22_RoundedToFive ==
    (op = "readTuneMeasure" /\ written # << >>)
       => written = <<MeasureFrameOf(freq, 5)>>

\* 87.54 MHz is measured at 87.50 MHz.
C22_Witness ==
    op = "readTuneMeasure" /\ freq = 8754 /\ result = "ok"
       /\ written = <<(<<50, 0, 34, 46, 0>>)>>

\* C23: (the claim as stated) a readTuneStatus that returns an error returns
\* all-zero values with it, at whichever response byte the read failed.
C23_ZeroOnError ==
    (op = "readTuneStatus" /\ Failed) => tuneStatus = NoTuneStatus

\* C24: (the claim as stated) when the transport returns k bytes, k other
\* than the N asked for, without an error, buffRead fails with the
\* short-read error that carries N as the expected and k as the actual count.
C24_ShortReadCounts ==
    (lastIO.k = "Read" /\ lastIO.ok /\ errCounts # << >>)
       => (result = "errShortRead" /\ errCounts[2] = lastIO.val)

IsMeasure(f) == f[1] = CMD_TX_TUNE_MEASURE

\* C25: (the claim as stated) the tune-measure frames of a Start with the
\* frequency scan enabled are those of 8750, 8760, ..., 10800, in order: the
\* k-th of the 206 carries 8750 + 10 (k - 1), and none carries a frequency
\* outside the band.
C25_ScanBand ==
    (op = "Start" /\ cfg.WithFrequencyScan /\ written # << >> /\ IsMeasure(Last(written)))
       => LET m == SelectSeq(written, IsMeasure)
          IN  \A k \in DOMAIN m :
                 k <= 206 => m[k] = MeasureFrameOf(8750 + 10 * (k - 1), 1)

C26_AfterScan ==
    {CMD_TX_TUNE_POWER, CMD_TX_TUNE_FREQ, CMD_TX_RDS_BUFF, CMD_TX_RDS_PS, CMD_GPO_CTL}

\* Start has got past begin and the scan with no failure and has returned.
C26_StoppedAfterScan ==
    /\ op = "Start" /\ cfg.StopAfterFrequencyScan /\ Returned
    /\ partNumber = PartNumberSi4713 /\ lastIO.ok

\* C26: (the claim as stated) with stop-after-scan set, a Start that got
\* through the scan returns a stop signal that is not an error, having
\* written no set-power, tune, RDS or GPIO-control frame.
C26_StopIsNoError ==
    C26_StoppedAfterScan
       => /\ ~Failed
          /\ \A i \in DOMAIN written : written[i][1] \notin C26_AfterScan

\* C26: with stop-after-scan set, a Start that got through the scan returns
\* the forced-stop error, and no Start returns it otherwise; a Start with
\* the flag set never returns success and never writes a set-power, tune,
\* RDS or GPIO-control frame.
C26_StopIsForcedStopError ==
    /\ C26_StoppedAfterScan => result = "errForcedStop"
    /\ result = "errForcedStop" => C26_StoppedAfterScan
    /\ (op = "Start" /\ cfg.StopAfterFrequencyScan)
          => /\ result # "ok"
             /\ \A i \in DOMAIN written : written[i][1] \notin C26_AfterScan

\* The stop after a scan of 320 frequencies.
C26_Witness ==
    /\ op = "Start" /\ cfg.WithFrequencyScan /\ result = "errForcedStop"
    /\ Count(written, CMD_TX_TUNE_MEASURE) = 320

\* C27: a Loop on a driver with the debug mode off returns success and
\* leaves the bus and the driver as they were: no frame written, no bus
\* operation, no pin written, the connection, the configuration and the
\* command buffers unchanged; so it is at every invocation.
C27_LoopDoesNothing ==
    [][(op' = "Loop" /\ ~cfg.DebugMode)
          => /\ result' = "ok" /\ todo' = << >>
             /\ written' = << >> /\ lastIO' = NoIO /\ pins' = << >>
             /\ UNCHANGED <<conn, cfg, tmpl, driver, lastWritten, pinName, notices>>
      ]_vars

\* A Loop as the second operation after Start.
C27_Witness ==
    op = "Loop" /\ ~cfg.DebugMode /\ result = "ok" /\ nops = 3 /\ written = << >>

C29_HandleDropped == (op = "Halt" /\ result = "ok") => ~conn

\* A frame other than power-down has been written and no status byte with
\* clear-to-send has been read since.
C30_Pending ==
    /\ result = "running" /\ written # << >> /\ Last(written)[1] # CMD_POWER_DOWN
    /\ lastIO.ok
    /\ lastIO.k = "Write" \/ (lastIO.k = "ReadByte" /\ ~HasBit(lastIO.val, 128))

\* C30: with one caller, between the write of a frame other than power-down
\* and the first status byte with clear-to-send there is no bus write: the
\* next bus operation is the read of a status byte.  (With two callers the
\* state of C30_Witness is reached.)
C30_SingleCaller ==
    [][(other = NoCaller /\ other' = NoCaller /\ C30_Pending)
          => (written' = written /\ lastIO'.k = "ReadByte")]_vars

\* Two callers: the first has written its frame and read no clear-to-send
\* yet; the second has written a frame of its own and has taken a status
\* byte from the bus.
C30_Witness ==
    /\ other.op = "SetRDSStation" /\ other.result = "running"
    /\ other.todo # << >> /\ Head(other.todo).k = "cts" /\ AllBusy(other.hsReads)
    /\ op = "SetGPIO" /\ Len(written) = 2
    /\ written[1][1] = CMD_TX_RDS_PS /\ written[2][1] = CMD_GPO_SET
    /\ lastIO.k = "ReadByte" /\ lastIO.ok /\ hsReads = <<lastIO.val>>

\* C31: the frame an operation writes is made of the bytes the operation
\* assigns and, everywhere else, of the bytes the command has when nothing
\* was sent before: it does not depend on the commands built or sent
\* earlier (a message slot sent after the time frame carries no byte of it,
\* and a field that is zero in the command stays zero).
C31_FrameOfParameters ==
    [][(Running("send") /\ lastIO'.k = "Write" /\ lastIO'.ok)
          => /\ Len(written') = Len(written) + 1
             /\ Last(written') = Assign(Templates[Head(todo).t], Head(todo).set)
      ]_vars

\* The first slot of "AB", written through the buffer that held the time
\* frame.
C31_Witness ==
    /\ impl = "radio.go" /\ op = "SetRDSMessage" /\ text = StrAB
    /\ written = <<(<<53, 6, 32, 0, 65, 66, 32, 32>>)>>
    /\ lastIO = IO("Write", TRUE, 53)

PropertyFrame(property, value) ==
    <<CMD_SET_PROPERTY, 0, Hi(property), Lo(property), Hi(value), Lo(value)>>

\* The property frames of EnableRDS, for program id pi and alternate
\* frequency af.
C32_Properties(pi, af) ==
    <<PropertyFrame(8449, 6625), PropertyFrame(8451, 200), PropertyFrame(11264, 1),
      PropertyFrame(11265, pi), PropertyFrame(11266, 3), PropertyFrame(11267, 6152),
      PropertyFrame(11268, 3), PropertyFrame(11269, 1), PropertyFrame(11270, af),
      PropertyFrame(11271, 0), PropertyFrame(8448, 7)>>

\* The place in written of the first write of property 0x2101, 0 if none.
C32_First ==
    LET first == {i \in DOMAIN written : /\ written[i][1] = CMD_SET_PROPERTY
                                         /\ written[i][3] = 33 /\ written[i][4] = 1}
    IN  IF first = {} THEN 0 ELSE CHOOSE i \in first : \A j \in first : i <= j

C33_Frames == <<(<<CMD_TX_ASQ_STATUS, 1>>), <<CMD_GPO_SET, 2>>, <<CMD_GPO_SET, 4>>>>

\* The last bus operation was the read of a clear-to-send status byte.
C33_HandshakeDone == lastIO.k = "ReadByte" /\ lastIO.ok /\ HasBit(lastIO.val, STATUS_CTS)

\* C33: with debug mode on Loop does, in this order: the ASQ frame
\* [0x34, 0x01] and its handshake, a read of 5 bytes, the GPIO-set frame with
\* mask 0x02 and its handshake, the GPIO-set frame with mask 0x04 and its
\* handshake, a read of 6 bytes that follows that handshake with no frame
\* in between; a step that fails ends Loop, which returns the failure.
C33_LoopOrder ==
    (op = "Loop" /\ cfg.DebugMode)
       => /\ \E n \in 0..3 : written = SubSeq(C33_Frames, 1, n)
          /\ Running("send")
                => \/ written = << >> /\ lastIO = NoIO
                   \/ written = SubSeq(C33_Frames, 1, 1) /\ lastIO = IO("Read", TRUE, 5)
                   \/ written = SubSeq(C33_Frames, 1, 2) /\ C33_HandshakeDone
          /\ Running("buffRead")
                => /\ C33_HandshakeDone
                   /\ \/ Head(todo).n = 5 /\ written = SubSeq(C33_Frames, 1, 1)
                      \/ Head(todo).n = 6 /\ written = C33_Frames
          /\ result = "ok" => (written = C33_Frames /\ lastIO = IO("Read", TRUE, 6))
          /\ Failed => (todo = << >> /\ (~lastIO.ok \/ lastIO.k = "Read"))

\* Loop has gone through all five steps and returned success.
C33_Witness ==
    /\ op = "Loop" /\ cfg.DebugMode /\ result = "ok"
    /\ written = C33_Frames /\ lastIO = IO("Read", TRUE, 6)

\* The length of the frame of each opcode.
C34_FrameLength ==
    [o \in {1, 17, 16, 48, 51, 50, 49, 18, 54, 53, 128, 129, 52} |->
       CASE o = 1 -> 3
         [] o \in {17, 16, 51, 128, 129, 52} -> 2
         [] o = 48 -> 4
         [] o \in {50, 49} -> 5
         [] o \in {18, 54} -> 6
         [] o = 53 -> 8]

\* C34: every frame written through sendCommand has the length fixed for
\* its opcode: 0x01 3, 0x11 2, 0x10 2, 0x30 4, 0x33 2, 0x32 5, 0x31 5,
\* 0x12 6, 0x36 6, 0x35 8, 0x80 2, 0x81 2, 0x34 2; no other opcode is written.
C34_FrameLengths ==
    \A i \in DOMAIN written :
       /\ written[i][1] \in DOMAIN C34_FrameLength
       /\ Len(written[i]) = C34_FrameLength[written[i][1]]

\* Loop has written its first GPIO-set frame, after the ASQ frame.
C34_Witness ==
    /\ op = "Loop" /\ Len(written) = 2
    /\ written[2] = <<CMD_GPO_SET, 2>> /\ lastIO = IO("Write", TRUE, CMD_GPO_SET)

\* C36: (the claim as stated) the wait of readTuneMeasure ends, as the wait
\* of tuneFM does, on the first interrupt-status byte that has both bits of
\* 0x81: after such a byte, 0x85 for one, no further poll is due.
C36_MeasureWaitEnds ==
    (op \in {"tuneFM", "readTuneMeasure"} /\ polls > 0 /\ hsReads = << >>
        /\ lastIO.k = "ReadByte" /\ lastIO.ok /\ Has81(lastIO.val))
       => ~Running("intW")

C38_ValidateIdempotent ==
    [][(op' = "Validate" /\ result = "ok")
          => (result' = "ok" /\ checked' = checked /\ notices' = notices)
      ]_vars

\* The second Validate has returned, on a configuration the first one had
\* changed in four fields, with two notices.
C38_Witness ==
    /\ op = "Validate" /\ result = "ok" /\ validations = 2
    /\ passed.TransmitPower = 255 /\ passed.AlternateFrequency = 0
    /\ passed.ProgramID = 0 /\ passed.ResetPin = StrEmpty
    /\ checked = [passed EXCEPT !.TransmitPower = 115, !.AlternateFrequency = 8750,
                                !.ProgramID = 12548, !.ResetPin = PinDefault]
    /\ Len(notices) = 2

\* The driver holds the configuration as Validate leaves the one it was
\* built from: so it is with every driver NewSi4713Driver returns.
C39_Validated == Validate(passed).res = "ok" /\ cfg = Validate(passed).cfg

\* C39: a Start on a driver from NewSi4713Driver writes at most one
\* set-power frame, [0x31, 0, 0, p, 0] with the configured power p in
\* [88, 115] and antenna capacitor 0, and at most one tune frame, which
\* carries the configured transmit frequency, in [8750, 10800], high byte
\* first.  (written changes with a Write only, so the frames are looked at
\* after each Write.)
C39_PowerAndTuneFrames ==
    (op = "Start" /\ lastIO.k = "Write" /\ C39_Validated)
       => /\ \A i \in DOMAIN written :
                /\ written[i][1] = CMD_TX_TUNE_POWER
                      => /\ written[i] = <<CMD_TX_TUNE_POWER, 0, 0, cfg.TransmitPower, 0>>
                         /\ written[i][4] \in MinPower..MaxPower
                         /\ \A j \in DOMAIN written :
                               written[j][1] = CMD_TX_TUNE_POWER => j = i
                /\ written[i][1] = CMD_TX_TUNE_FREQ
                      => /\ written[i][2] = 0
                         /\ written[i][3] * 256 + written[i][4] = cfg.TransmitFrequency
                         /\ cfg.TransmitFrequency = passed.TransmitFrequency
                         /\ cfg.TransmitFrequency \in MinFrequency..MaxFrequency
                         /\ \A j \in DOMAIN written :
                               written[j][1] = CMD_TX_TUNE_FREQ => j = i

\* The tune frame has just been written after the set-power frame, on a
\* driver NewSi4713Driver built from a configuration with power 255.
C39_Witness ==
    /\ op = "Start" /\ impl = "radio.go" /\ passed.TransmitPower = 255
    /\ lastIO = IO("Write", TRUE, CMD_TX_TUNE_FREQ)
    /\ Last(written) = <<CMD_TX_TUNE_FREQ, 0, 37, 78>>
    /\ written[Len(written) - 1] = <<CMD_TX_TUNE_POWER, 0, 0, 115, 0>>

\* The frame of step st, made of the parameters of its own operation.
C35_OwnFrame(st) == Assign(Templates[st.t], st.set)

\* C35: (the claim as stated) of two drivers on two chips, each with one
\* caller, every frame either writes to its bus is made of the parameters
\* of its own operation alone, whatever the other driver does meanwhile.
C35_OwnFrames ==
    /\ \A i \in DOMAIN peer.written : peer.written[i] = C35_OwnFrame(peer.steps[i])
    /\ op = "SetRDSStation"
          => \A i \in DOMAIN written : written[i] = C35_OwnFrame(SetRDSStation(text)[i])

\* C40: on a bus on which every operation succeeds, every handshake comes
\* to read a status byte with bit 0x80 and every wait comes to read 0x81,
\* every call of Start, Loop, SetRDSStation, SetRDSMessage and Halt returns.
C40_Terminates ==
    (result = "running" /\ op \in {"Start", "Loop", "SetRDSStation", "SetRDSMessage", "Halt"})
       ~> (result # "running")

\* Start has returned success after the scan of 320 frequencies and the
\* measurement of its own.
C40_Witness ==
    /\ op = "Start" /\ result = "ok" /\ cfg.WithFrequencyScan
    /\ Count(written, CMD_TX_TUNE_MEASURE) = 321
====
